---------------------------- MODULE Spec2Model ----------------------------
(***************************************************************************)
(* spart: a table of flat, typed records is validated (App::new), sorted   *)
(* by the selected keys (sort_arr), filtered by the per-field bounds and   *)
(* run-length grouped into bars (make_bars); the settings are changed      *)
(* from the egui frame handler (App::update).                              *)
(*                                                                         *)
(* Values are records [t |-> type tag, v |-> payload].  The payload of a   *)
(* scalar is a small integer that keeps the order the value has in Rust:   *)
(* integers and floats are themselves, false/true are 0/1, a string or a   *)
(* byte sequence is its index in the ascending list of the strings (byte   *)
(* sequences) the model uses.  Null, Map and Array carry payload 0.        *)
(***************************************************************************)
EXTENDS Integers, Sequences, FiniteSets, TLC

VARIABLES data, keys, settings, bars, status, had_bars, rebuilt

vars == <<data, keys, settings, bars, status, had_bars, rebuilt>>

\* ------------------------------------------------------------------ bounds

\* rows of a table handed to App::new
MaxAppRows == 3
\* rows of a table handed to the sort_arr / make_bars pipeline
MaxRows == 3
\* strings in the value list of a string bound
MaxValues == 1
\* the slider limits N::MIN and N::MAX of a Range bound, scaled down
SliderMin == 0
SliderMax == 2

\* settings.max_shown before the first rebuild (usize::MAX, scaled to TLC's integers)
USIZE_MAX == 2147483647

\* ------------------------------------------------------------- value model

Fields == {"a", "b"}

\* the field names in ascending order
FieldsAscending == <<"a", "b">>

Value(t, v) == [t |-> t, v |-> v]

Null == Value("Null", 0)

MapValue == Value("Map", 0)

Nested == {"Map", "Array"}

\* the types whose same-typed pairs sort_arr compares by Ord::cmp
Comparable == {"I64", "U64", "Float", "Str", "Bool", "Bytes"}

\* the strings a user can type into a string bound
StrCodes == {1, 2}

\* all sequences without repetition over the set S
RECURSIVE Arrangements(_)
Arrangements(S) ==
    {<<>>} \cup UNION {{<<x>> \o r : r \in Arrangements(S \ {x})} : x \in S}

\* the orders in which a hash map over the fields may be iterated
IterOrders == {o \in Arrangements(Fields) : Len(o) = Cardinality(Fields)}

TablesOver(Records, n) == UNION {[1..k -> Records] : k \in 0..n}

\* ----------------------------------------------------------------- App::new

\* the match on (first[key].value_type(), value.value_type())
CheckTypes(first_t, value_t) ==
    IF first_t \in Nested \/ value_t \in Nested THEN "NestedTypes"
    ELSE IF first_t = "Null" \/ value_t = "Null" THEN "Pass"
    ELSE IF first_t # value_t THEN "DifferentTypes"
    ELSE "Pass"

\* the errors the fields of one later record raise against the first record
MapErrors(first, map) ==
    {CheckTypes(first[k].t, map[k].t) : k \in Fields} \ {"Pass"}

\* The results App::new can return.  The records are visited in order and
\* the first error returns; the fields of a record are visited in hash-map
\* order, so a record with several errors may report any one of them.
AppNewResults(d) ==
    IF d = <<>> THEN {"NoData"}
    ELSE LET bad == {i \in 2..Len(d) : MapErrors(d[1], d[i]) # {}}
         IN  IF bad = {} THEN {"Ok"}
             ELSE MapErrors(d[1], d[CHOOSE i \in bad : \A j \in bad : i <= j])

\* keys: (name, type of the first record's value), ascending by name
KeysOf(d) ==
    [i \in 1..Len(FieldsAscending) |->
        [name |-> FieldsAscending[i], ty |-> d[1][FieldsAscending[i]].t]]

\* ------------------------------------------------------------------ sort_arr

\* the comparator closure of sort_arr
RECURSIVE Compare(_, _, _)
Compare(a, b, x_axis) ==
    IF x_axis = <<>> THEN "Equal"
    ELSE LET x == a[Head(x_axis)]
             y == b[Head(x_axis)]
         IN  IF x.t = y.t /\ x.t \in Comparable
             THEN IF x.v < y.v THEN "Less"
                  ELSE IF x.v > y.v THEN "Greater"
                  ELSE Compare(a, b, Tail(x_axis))
             ELSE IF x.t = "Null" /\ y.t = "Null" THEN "Equal"
             ELSE IF x.t = "Null" THEN "Less"
             ELSE IF y.t = "Null" THEN "Greater"
             ELSE "Unreachable"

\* sort_unstable_by panics when the comparator does.  Two records whose
\* comparison is unreachable!() are ordered by no chain of other records
\* (every record comparable with both lies below both), so any comparison
\* sort has to compare such a pair directly.
SortPanics(vec, x_axis) ==
    \E i, j \in 1..Len(vec) : i # j /\ Compare(vec[i], vec[j], x_axis) = "Unreachable"

IsSortedBy(vec, x_axis) ==
    \A i \in 1..(Len(vec) - 1) : Compare(vec[i], vec[i + 1], x_axis) \in {"Less", "Equal"}

\* The slices sort_unstable_by may leave: every rearrangement of vec that
\* is ascending under the comparator (the order of ties is unspecified).
SortArrResults(vec, x_axis) ==
    IF Len(vec) < 2 THEN {vec}
    ELSE {s \in {[i \in 1..Len(vec) |-> vec[p[i]]] : p \in Permutations(1..Len(vec))} :
            IsSortedBy(s, x_axis)}

\* ------------------------------------------------------------------ settings

\* ValueBound.  A field without an entry in settings.bounds maps to NoBound.
NoBound == [ty |-> "None", kind |-> "None", include |-> "None",
            start |-> 0, end |-> 0, values |-> <<>>]

\* ValueBound::I64 / U64 / F64 (Bound::Range(start..end))
RangeBound(ty, start, end) ==
    [ty |-> ty, kind |-> "Range", include |-> "None",
     start |-> start, end |-> end, values |-> <<>>]

\* ValueBound::I64 / U64 / F64 (Bound::Specifics {include, values}) and ValueBound::Str
SpecificsBound(ty, include, values) ==
    [ty |-> ty, kind |-> "Specifics", include |-> include,
     start |-> 0, end |-> 0, values |-> values]

\* ValueBound::Bool(b), b as 0 / 1
BoolBound(b) ==
    [ty |-> "Bool", kind |-> "Bool", include |-> "None",
     start |-> b, end |-> b, values |-> <<>>]

Contains(values, val) == \E i \in 1..Len(values) : values[i] = val

\* Bound<T>::excludes with the bound's upper end taken as included
ExcludesClosedRange(bound, val) ==
    IF bound.kind = "Range" THEN ~(bound.start <= val /\ val <= bound.end)
    ELSE IF bound.include = "Exclude" THEN Contains(bound.values, val)
    ELSE ~Contains(bound.values, val)

\* Bound<T>::excludes
Excludes(bound, val) ==
    IF bound.kind = "Range" THEN ~(bound.start <= val /\ val < bound.end)
    ELSE IF bound.include = "Exclude" THEN Contains(bound.values, val)
    ELSE ~Contains(bound.values, val)

\* Settings::default()
DefaultSettings ==
    [bounds |-> [k \in Fields |-> NoBound], x_axis |-> <<>>,
     y_axis |-> "Count", max_shown |-> USIZE_MAX]

\* ValueBound::base_options_for; unreachable!() for the nested types
BaseOptionsFor(ty) ==
    IF ty \in {"I64", "U64", "Float"}
    THEN {RangeBound(ty, 0, SliderMax), SpecificsBound(ty, "Exclude", <<>>),
          SpecificsBound(ty, "Include", <<>>)}
    ELSE IF ty = "Str"
    THEN {SpecificsBound("Str", "Include", <<>>), SpecificsBound("Str", "Exclude", <<>>)}
    ELSE IF ty = "Bool" THEN {BoolBound(1), BoolBound(0)}
    ELSE {}

\* ----------------------------------------------------------------- make_bars

\* the match on (field, bound) inside the filter closure
FieldCheck(field, bound) ==
    IF field.t \in {"I64", "U64", "Float"} /\ bound.ty = field.t
    THEN IF Excludes(bound, field.v) THEN "Drop" ELSE "Keep"
    ELSE IF field.t = "Bool" /\ bound.ty = "Bool"
    THEN IF field.v # bound.start THEN "Drop" ELSE "Keep"
    ELSE IF field.t = "Str" /\ bound.ty = "Str"
    THEN IF bound.include = "Include"
         THEN IF ~Contains(bound.values, field.v) THEN "Drop" ELSE "Keep"
         ELSE IF Contains(bound.values, field.v) THEN "Drop" ELSE "Keep"
    ELSE IF field.t = "Bytes" THEN "Keep"
    ELSE IF field.t = "Null" THEN "Drop"
    ELSE "Unreachable"

\* settings.bounds.iter()...any(..) over one row: the bounds are visited in
\* the hash map's order and the first one that does not keep the row decides
RECURSIVE RowCheck(_, _, _)
RowCheck(val, bounds, order) ==
    IF order = <<>> THEN "Keep"
    ELSE IF bounds[Head(order)] = NoBound THEN RowCheck(val, bounds, Tail(order))
    ELSE LET r == FieldCheck(val[Head(order)], bounds[Head(order)])
         IN  IF r = "Keep" THEN RowCheck(val, bounds, Tail(order)) ELSE r

\* the rows the filter lets through, in order
RECURSIVE Filtered(_, _, _)
Filtered(d, bounds, order) ==
    IF d = <<>> THEN <<>>
    ELSE IF RowCheck(Head(d), bounds, order) = "Keep"
         THEN <<Head(d)>> \o Filtered(Tail(d), bounds, order)
         ELSE Filtered(Tail(d), bounds, order)

\* old_vals: the row's values of the x_axis keys, in x_axis order
KeyValues(val, x_axis) == [i \in 1..Len(x_axis) |-> val[x_axis[i]]]

\* egui_plot::Bar; the name stands for the joined Debug forms of old_vals
Bar(argument, value, name) == [argument |-> argument, value |-> value, name |-> name]

\* the inner for loop: the rows after the run's first row that match it
RECURSIVE Matching(_, _, _)
Matching(old_vals, rest, x_axis) ==
    IF rest = <<>> THEN 0
    ELSE IF KeyValues(Head(rest), x_axis) = old_vals
         THEN 1 + Matching(old_vals, Tail(rest), x_axis)
         ELSE 0

\* the while loop: one bar per run of consecutive rows with equal key values
RECURSIVE GroupRuns(_, _, _)
GroupRuns(rows, x_axis, acc) ==
    IF rows = <<>> THEN acc
    ELSE LET old_vals == KeyValues(Head(rows), x_axis)
             count == 1 + Matching(old_vals, Tail(rows), x_axis)
         IN  GroupRuns(SubSeq(rows, count + 1, Len(rows)), x_axis,
                       Append(acc, Bar(Len(acc), count, old_vals)))

Reverse(s) == [i \in 1..Len(s) |-> s[Len(s) + 1 - i]]

\* bars.into_iter().enumerate(): argument := index
Enumerate(s) == [i \in 1..Len(s) |-> [s[i] EXCEPT !.argument = i - 1]]

\* the results sort_unstable_by_key(|b| b.value) may leave
SortedByValue(s) ==
    IF Len(s) < 2 THEN {s}
    ELSE {r \in {[i \in 1..Len(s) |-> s[p[i]]] : p \in Permutations(1..Len(s))} :
            \A i \in 1..(Len(r) - 1) : r[i].value <= r[i + 1].value}

\* the ranking without bars.reverse()
RankNoReverse(unranked) == {Enumerate(r) : r \in SortedByValue(unranked)}

\* sort_unstable_by_key, reverse, enumerate
Rank(unranked) == {Enumerate(Reverse(r)) : r \in SortedByValue(unranked)}

Outcome(kind, b) == [kind |-> kind, bars |-> b]

\* Every outcome of make_bars(data, settings): a bar list, or the panic of
\* todo!() or of unreachable!().
MakeBars(d, s) ==
    IF s.x_axis = <<>> THEN {Outcome("Ok", <<>>)}
    ELSE IF s.y_axis # "Count" THEN {Outcome("Todo", <<>>)}
    ELSE UNION {
        IF \E i \in 1..Len(d) : RowCheck(d[i], s.bounds, order) = "Unreachable"
        THEN {Outcome("Unreachable", <<>>)}
        ELSE {Outcome("Ok", b) : b \in Rank(GroupRuns(Filtered(d, s.bounds, order), s.x_axis, <<>>))}
        : order \in IterOrders}

\* -------------------------------------------------------------- rebuild_bars

\* max_shown after rebuild_bars, were it reset on every rebuild
MaxShownAlwaysReset(was_empty, max_shown, len) == len

\* if was_empty { settings.max_shown = bars.len() }
MaxShownAfter(was_empty, max_shown, len) == IF was_empty THEN len ELSE max_shown

\* rebuild_bars on the settings s the caller has just written.  had_bars
\* records that some rebuild has produced a non-empty bar list, rebuilt
\* that the frame just handled called rebuild_bars.
RebuildBars(s) ==
    /\ rebuilt' = TRUE
    /\ IF SortPanics(data, s.x_axis)
       THEN /\ status' = "PanicSort"
            /\ settings' = s
            /\ UNCHANGED <<data, keys, bars, had_bars>>
       ELSE \E sorted \in SortArrResults(data, s.x_axis) :
            \E out \in MakeBars(sorted, s) :
               /\ data' = sorted
               /\ IF out.kind = "Ok"
                  THEN /\ bars' = out.bars
                       /\ settings' = [s EXCEPT !.max_shown =
                                          MaxShownAfter(bars = <<>>, @, Len(out.bars))]
                       /\ had_bars' = (had_bars \/ out.bars # <<>>)
                       /\ UNCHANGED status
                  ELSE /\ status' = "PanicBars"
                       /\ settings' = s
                       /\ UNCHANGED <<bars, had_bars>>
               /\ UNCHANGED keys

\* ------------------------------------------------------------------ the app

AppCellsA == {Null, Value("I64", 1), Value("Str", 1), MapValue}

AppCellsB == {Value("Bool", 1)}

AppRecords == {[a |-> x, b |-> y] : x \in AppCellsA, y \in AppCellsB}

Init ==
    /\ data \in TablesOver(AppRecords, MaxAppRows)
    /\ keys = <<>>
    /\ settings = DefaultSettings
    /\ bars = <<>>
    /\ status = "Start"
    /\ had_bars = FALSE
    /\ rebuilt = FALSE

\* App::new
AppNew ==
    /\ status = "Start"
    /\ \E r \in AppNewResults(data) :
          IF r = "Ok"
          THEN status' = "Running" /\ keys' = KeysOf(data)
          ELSE status' = r /\ UNCHANGED keys
    /\ UNCHANGED <<data, settings, bars, had_bars, rebuilt>>

\* settings.x_axis.remove(idx) for the first idx holding key
RECURSIVE RemoveFirst(_, _)
RemoveFirst(x_axis, key) ==
    IF x_axis = <<>> THEN <<>>
    ELSE IF Head(x_axis) = key THEN Tail(x_axis)
    ELSE <<Head(x_axis)>> \o RemoveFirst(Tail(x_axis), key)

\* App::add_key
AddKey(key) == RebuildBars([settings EXCEPT !.x_axis = Append(@, key)])

\* App::remove_key
RemoveKey(key) == RebuildBars([settings EXCEPT !.x_axis = RemoveFirst(@, key)])

\* update: a click on the radio button of a key
ClickKey(i) ==
    /\ status = "Running"
    /\ IF Contains(settings.x_axis, keys[i].name)
       THEN RemoveKey(keys[i].name)
       ELSE AddKey(keys[i].name)

\* update: the "Max shown" slider over 0..=num_bars
SetMaxShown(n) ==
    /\ status = "Running"
    /\ n \in 0..Len(bars)
    /\ settings' = [settings EXCEPT !.max_shown = n]
    /\ rebuilt' = FALSE
    /\ UNCHANGED <<data, keys, bars, status, had_bars>>

\* update: the bounds combo box of a key of nested type is opened;
\* base_options_for reaches its unreachable!()
ShowBoundsForNested(i) ==
    /\ status = "Running"
    /\ keys[i].ty \in Nested
    /\ status' = "PanicOptions"
    /\ rebuilt' = FALSE
    /\ UNCHANGED <<data, keys, settings, bars, had_bars>>

\* update: show_bounds_for_ty changes the bound of a key (to a base option
\* or to None), which sets update_bars
SelectBound(i, b) ==
    /\ status = "Running"
    /\ keys[i].ty \notin Nested
    /\ b \in BaseOptionsFor(keys[i].ty) \cup {NoBound}
    /\ b # settings.bounds[keys[i].name]
    /\ RebuildBars([settings EXCEPT !.bounds[keys[i].name] = b])

\* update: show_bounds_configurations on a Range bound (show_slider_for_range);
\* it returns false, update_bars stays unset
ShowSliderForRange(i, start, end) ==
    /\ status = "Running"
    /\ settings.bounds[keys[i].name].kind = "Range"
    /\ start \in SliderMin..settings.bounds[keys[i].name].end
    /\ end \in settings.bounds[keys[i].name].end..SliderMax
    /\ settings' = [settings EXCEPT !.bounds[keys[i].name].start = start,
                                    !.bounds[keys[i].name].end = end]
    /\ rebuilt' = FALSE
    /\ UNCHANGED <<data, keys, bars, status, had_bars>>

\* update: show_bounds_configurations on a Str bound, a value's text is
\* edited; update_bars is set when Enter was pressed in that frame
EditStrValue(i, idx, text, enter) ==
    /\ status = "Running"
    /\ settings.bounds[keys[i].name].ty = "Str"
    /\ idx \in 1..Len(settings.bounds[keys[i].name].values)
    /\ LET s == [settings EXCEPT !.bounds[keys[i].name].values[idx] = text]
       IN  IF enter THEN RebuildBars(s)
           ELSE /\ settings' = s
                /\ rebuilt' = FALSE
                /\ UNCHANGED <<data, keys, bars, status, had_bars>>

\* update: show_bounds_configurations on a Str bound, a value is removed
RemoveStrValue(i, idx) ==
    /\ status = "Running"
    /\ settings.bounds[keys[i].name].ty = "Str"
    /\ idx \in 1..Len(settings.bounds[keys[i].name].values)
    /\ LET values == settings.bounds[keys[i].name].values
       IN  RebuildBars([settings EXCEPT !.bounds[keys[i].name].values =
                          SubSeq(values, 1, idx - 1) \o SubSeq(values, idx + 1, Len(values))])

\* update: show_bounds_configurations on a Str bound, a new value is typed;
\* it is pushed without setting update_bars
PushStrValue(i, text) ==
    /\ status = "Running"
    /\ settings.bounds[keys[i].name].ty = "Str"
    /\ Len(settings.bounds[keys[i].name].values) < MaxValues
    /\ settings' = [settings EXCEPT !.bounds[keys[i].name].values = Append(@, text)]
    /\ rebuilt' = FALSE
    /\ UNCHANGED <<data, keys, bars, status, had_bars>>

Next ==
    \/ AppNew
    \/ \E i \in 1..Len(keys) : ClickKey(i)
    \/ \E n \in 0..MaxAppRows : SetMaxShown(n)
    \/ \E i \in 1..Len(keys) : ShowBoundsForNested(i)
    \/ \E i \in 1..Len(keys) : \E b \in BaseOptionsFor(keys[i].ty) \cup {NoBound} : SelectBound(i, b)
    \/ \E i \in 1..Len(keys) : \E start, end \in SliderMin..SliderMax : ShowSliderForRange(i, start, end)
    \/ \E i \in 1..Len(keys) : \E idx \in 1..MaxValues : \E text \in StrCodes :
          \E enter \in BOOLEAN : EditStrValue(i, idx, text, enter)
    \/ \E i \in 1..Len(keys) : \E idx \in 1..MaxValues : RemoveStrValue(i, idx)
    \/ \E i \in 1..Len(keys) : \E text \in StrCodes : PushStrValue(i, text)

Spec == Init /\ [][Next]_vars

\* ------------------------------------------------- sort_arr, then make_bars

PipeCellsA == {Null, Value("I64", 1), Value("I64", 2), Value("Str", 1), Value("Str", 2),
               Value("Bool", 0), Value("Bool", 1)}

PipeCellsB == {Null, Value("Bytes", 1)}

PipeRecords == {[a |-> x, b |-> y] : x \in PipeCellsA, y \in PipeCellsB}

\* the tables App::new accepts
PipeTables == {d \in TablesOver(PipeRecords, MaxRows) : AppNewResults(d) = {"Ok"}}

\* the non-Null types a field takes in the table
ColumnTypes(d, k) == {d[i][k].t : i \in 1..Len(d)} \ {"Null"}

\* The bounds a field is given: bounds of the type of its values, any
\* bound when it only holds byte sequences or Nulls, and no bound.
PipeBoundsFor(types) ==
    {NoBound} \cup
    (IF types = {"I64"}
     THEN {RangeBound("I64", 1, 2), SpecificsBound("I64", "Include", <<1>>),
           SpecificsBound("I64", "Exclude", <<1>>)}
     ELSE IF types = {"Str"}
     THEN {SpecificsBound("Str", "Include", <<1>>), SpecificsBound("Str", "Exclude", <<1>>)}
     ELSE IF types = {"Bool"}
     THEN {BoolBound(0), BoolBound(1)}
     ELSE IF types \subseteq {"Bytes"}
     THEN {RangeBound("I64", 1, 2)}
     ELSE {})

PipeInit ==
    /\ data \in PipeTables
    /\ keys = KeysOf(data)
    /\ \E x_axis \in Arrangements(Fields) : \E y_axis \in {"Count", "Key"} :
       \E bounds \in [Fields -> UNION {PipeBoundsFor(ColumnTypes(data, k)) : k \in Fields}] :
          /\ \A k \in Fields : bounds[k] \in PipeBoundsFor(ColumnTypes(data, k))
          /\ settings = [bounds |-> bounds, x_axis |-> x_axis, y_axis |-> y_axis,
                         max_shown |-> USIZE_MAX]
    /\ bars = <<>>
    /\ status = "Input"
    /\ had_bars = FALSE
    /\ rebuilt = FALSE

\* sort_arr(data, settings)
PipeSort ==
    /\ status = "Input"
    /\ IF SortPanics(data, settings.x_axis)
       THEN status' = "PanicSort" /\ UNCHANGED data
       ELSE status' = "Sorted" /\ data' \in SortArrResults(data, settings.x_axis)
    /\ UNCHANGED <<keys, settings, bars, had_bars, rebuilt>>

\* bars = make_bars(data, settings)
PipeMakeBars ==
    /\ status = "Sorted"
    /\ \E out \in MakeBars(data, settings) :
          /\ bars' = out.bars
          /\ status' = (IF out.kind = "Ok" THEN "Done" ELSE out.kind)
    /\ UNCHANGED <<data, keys, settings, had_bars, rebuilt>>

PipeNext == PipeSort \/ PipeMakeBars

PipeSpec == PipeInit /\ [][PipeNext]_vars

\* -------------------------------------------------------------------- claims

HasNested(d) == \E i \in 1..Len(d) : \E k \in Fields : d[i][k].t \in Nested

\* two records hold values of two different non-Null types for one field
HasMismatch(d) ==
    \E i, j \in 1..Len(d) : \E k \in Fields :
        /\ d[i][k].t # "Null"
        /\ d[j][k].t # "Null"
        /\ d[i][k].t # d[j][k].t

\* C1: on a table App::new accepted, sort_arr followed by make_bars never
\* reaches an unreachable!() branch, also when the first record's value
\* of a field is Null and later records hold non-Null values for it.
C1_NoUnreachable == status \notin {"PanicSort", "PanicBars"}

\* the order the sort is specified to produce: key after key, Null below
\* every other value, two Nulls equal and the next key deciding
RECURSIVE LexCompare(_, _, _)
LexCompare(a, b, group_keys) ==
    IF group_keys = <<>> THEN "Equal"
    ELSE LET x == a[Head(group_keys)]
             y == b[Head(group_keys)]
         IN  IF x.t = "Null" /\ y.t = "Null" THEN LexCompare(a, b, Tail(group_keys))
             ELSE IF x.t = "Null" THEN "Less"
             ELSE IF y.t = "Null" THEN "Greater"
             ELSE IF x.t # y.t THEN "Undefined"
             ELSE IF x.v < y.v THEN "Less"
             ELSE IF x.v > y.v THEN "Greater"
             ELSE LexCompare(a, b, Tail(group_keys))

\* C2: after sort_arr every adjacent pair of records is non-decreasing in
\* the lexicographic order over the group keys, where two Nulls are equal
\* and the comparison goes on with the next key.
C2_SortedLexicographically ==
    status = "Sorted" =>
        \A i \in 1..(Len(data) - 1) :
            LexCompare(data[i], data[i + 1], settings.x_axis) \in {"Less", "Equal"}

\* C3 as claimed: the first rebuild that produces a non-empty bar list sets
\* max_shown to the number of bars, and no rebuild after it changes
\* max_shown, also not one that starts from a bar list that has become
\* empty again.
C3_OnlyFirstNonEmptyRebuildSets ==
    [][rebuilt' =>
        /\ (~had_bars /\ bars' # <<>>) => settings'.max_shown = Len(bars')
        /\ had_bars => settings'.max_shown = settings.max_shown]_vars

\* C3, amended: a rebuild that returns sets max_shown to the number of bars
\* exactly when the bar list was empty before it (whatever it produces);
\* every other rebuild leaves max_shown as it was.
C3_RebuildSetsWhenWasEmpty ==
    [][rebuilt' =>
        IF bars = <<>> /\ status' = "Running"
        THEN settings'.max_shown = Len(bars')
        ELSE settings'.max_shown = settings.max_shown]_vars

\* a rebuild has left a limit the user lowered as it was, although the bar
\* list has become shorter than it (the slider itself stays within 0..=num_bars)
C3_Witness ==
    /\ status = "Running"
    /\ bars # <<>>
    /\ settings.max_shown > Len(bars)
    /\ settings.max_shown < USIZE_MAX

\* C4: after every settings mutation the bar list is the result of
\* make_bars over the sorted table under the current settings.
C4_BarsNeverStale ==
    status = "Running" => bars \in {o.bars : o \in MakeBars(data, settings)}

\* C5: App::new returns Err(NestedTypes) for every non-empty table that
\* holds a Map or Array value at any position.
C5_NestedAlwaysRejected ==
    (status # "Start" /\ HasNested(data)) => status = "NestedTypes"

\* C6: App::new returns Err(DifferentTypes) for every table without nested
\* values in which two records hold different non-Null types for a field.
C6_MismatchAlwaysRejected ==
    (status # "Start" /\ ~HasNested(data) /\ HasMismatch(data)) => status = "DifferentTypes"

\* C7: with the aggregation mode ByKey make_bars never returns a bar list,
\* whatever the group keys are (the empty list included).
C7_ByKeyNeverReturnsBars ==
    settings.y_axis = "Key" => status # "Done"

\* Bound::excludes as specified
ClaimExcludes(bound, v) ==
    IF bound.kind = "Range" THEN ~(bound.start <= v /\ v < bound.end)
    ELSE IF bound.kind = "Bool" THEN v # bound.start
    ELSE IF bound.include = "Include" THEN v \notin {bound.values[n] : n \in 1..Len(bound.values)}
    ELSE v \in {bound.values[n] : n \in 1..Len(bound.values)}

\* the rows the bounds are specified to drop
ClaimDrops(row, bounds) ==
    \E k \in Fields :
        /\ bounds[k] # NoBound
        /\ \/ row[k].t = "Null"
           \/ /\ row[k].t # "Bytes"
              /\ row[k].t = bounds[k].ty
              /\ ClaimExcludes(bounds[k], row[k].v)

\* the rows of the table with the given key values that are not to be dropped
KeptWith(tuple) ==
    {i \in 1..Len(data) :
        /\ KeyValues(data[i], settings.x_axis) = tuple
        /\ ~ClaimDrops(data[i], settings.bounds)}

KeyTuples == {KeyValues(data[i], settings.x_axis) : i \in 1..Len(data)}

BarsNamed(tuple) == {n \in 1..Len(bars) : bars[n].name = tuple}

RECURSIVE SumOfValues(_)
SumOfValues(S) ==
    IF S = {} THEN 0
    ELSE LET n == CHOOSE m \in S : TRUE IN bars[n].value + SumOfValues(S \ {n})

Aggregated == status = "Done" /\ settings.y_axis = "Count" /\ settings.x_axis # <<>>

\* C8: in Count mode with group keys, the rows make_bars counts are exactly
\* the rows no bound drops, where a bound drops a row whose value is Null
\* or is a non-Bytes value the bound excludes: for every tuple of key
\* values the counts of its bars add up to the number of such rows, and
\* every bar stands for a tuple of the table.
C8_RowsDroppedByBounds ==
    Aggregated =>
        /\ \A tuple \in KeyTuples :
              SumOfValues(BarsNamed(tuple)) = Cardinality(KeptWith(tuple))
        /\ \A n \in 1..Len(bars) : bars[n].name \in KeyTuples /\ bars[n].value >= 1

\* a row with a bound on its byte sequence is counted, and a Range bound
\* has dropped a row whose value is the end of the range
C8_Witness ==
    /\ Aggregated
    /\ bars # <<>>
    /\ settings.bounds["a"].kind = "Range"
    /\ settings.bounds["b"] # NoBound
    /\ \E i, j \in 1..Len(data) :
          /\ data[i]["b"].t = "Bytes"
          /\ ~ClaimDrops(data[i], settings.bounds)
          /\ data[j]["a"] = Value("I64", settings.bounds["a"].end)
          /\ data[j]["b"].t = "Bytes"

\* C9: the bar list is ranked zero-based in its order, and the counts
\* descend along it; max_shown does not shorten it.
C9_RankedDescending ==
    status = "Running" =>
        \A n \in 1..Len(bars) :
            /\ bars[n].argument = n - 1
            /\ n < Len(bars) => bars[n].value >= bars[n + 1].value

\* bars of different counts, more of them than max_shown
C9_Witness ==
    /\ status = "Running"
    /\ Len(bars) >= 2
    /\ bars[1].value > bars[2].value
    /\ settings.max_shown < Len(bars)

\* C10: after sort_arr and make_bars in Count mode with group keys, every
\* tuple of key values among the rows not dropped has exactly one bar, and
\* its count is the number of those rows.
C10_OneBarPerKeyTuple ==
    Aggregated =>
        \A tuple \in KeyTuples :
            KeptWith(tuple) # {} =>
                /\ Cardinality(BarsNamed(tuple)) = 1
                /\ \A n \in BarsNamed(tuple) : bars[n].value = Cardinality(KeptWith(tuple))

=============================================================================
